---- MODULE Spec2Model ----
(***************************************************************************)
(* Model of app.py: the record standardizer, the name normalizer, the      *)
(* three match rules, the evidence deduplicator and the cartesian          *)
(* map/filter/map/merge pipeline of main().                                *)
(*                                                                         *)
(* Python values.  A str is a sequence of one-character strings; None is   *)
(* the one-element tuple <<"None">>, which is no str because "None" is not *)
(* a character.  A call that may raise returns Ok(v) or Raise(e).          *)
(***************************************************************************)
EXTENDS Integers, Sequences, FiniteSets, TLC

VARIABLES pc,               \* position of the function-level drivers
          raw_line,         \* standardize_record: the line it is given
          standard_record,  \* standardize_record: its result
          potential_match,  \* get_all_matches: the (gbr, ofac) pair
          output_record,    \* get_all_matches / drop_duplicates: the dict
          new_record,       \* drop_duplicates: its result
          gbr_lines,        \* main: lines of data/gbr.jsonl
          ofac_lines,       \* main: lines of data/ofac.jsonl
          gbr_split,        \* main: lines per partition of gbr
          ofac_split,       \* main: lines per partition of ofac
          shards,           \* main: per task, pending or its saved chunk
          first_done,       \* main: the task a worker finished first
          status,           \* main: running, failed or done
          output            \* main: data/output.jsonl

vars == <<pc, raw_line, standard_record, potential_match, output_record,
          new_record, gbr_lines, ofac_lines, gbr_split, ofac_split,
          shards, first_done, status, output>>

----------------------------------------------------------------------------
(* Bounds *)

MaxItems == 3        \* aliases + id numbers of a pair, both sides together
MaxElems == 1        \* elements in the nested lists of one raw line
MaxMatches == 4      \* evidence entries handed to drop_duplicates
MaxGbr == 2          \* lines of gbr.jsonl
MaxOfac == 1         \* lines of ofac.jsonl
MaxPartSize == 2     \* lines per partition

----------------------------------------------------------------------------
(* Python values *)

None == <<"None">>

Ok(v) == [ok |-> TRUE, val |-> v]

Raise(e) == [ok |-> FALSE, exc |-> e]

\* str(x) of a value that is a str or None
str(x) == IF x = None THEN <<"N", "o", "n", "e">> ELSE x

\* the lists of length n over S
ListsOfLen(S, n) == [1..n -> S]

----------------------------------------------------------------------------
(* clean_name *)

lower(name) ==
    [i \in 1..Len(name) |->
        CASE name[i] = "A" -> "a"
          [] name[i] = "B" -> "b"
          [] name[i] = "C" -> "c"
          [] OTHER -> name[i]]

RECURSIVE replace(_, _, _)
replace(name, old, new) ==
    IF name = <<>> THEN <<>>
    ELSE (IF Head(name) = old THEN new ELSE <<Head(name)>>)
            \o replace(Tail(name), old, new)

clean_name(name) ==
    IF name = None
    THEN Raise("AttributeError")
    ELSE Ok(replace(replace(replace(replace(lower(name),
                "-", <<" ">>), ".", <<>>), ",", <<>>), "'", <<>>))

----------------------------------------------------------------------------
(* The match rules *)

\* clean_name(a) == clean_name(b): either call may raise
names_equal(a, b) ==
    LET ca == clean_name(a)
        cb == clean_name(b)
    IN  IF ~ca.ok THEN ca
        ELSE IF ~cb.ok THEN cb
        ELSE Ok(ca.val = cb.val)

\* the loop of get_name_matches over ofac_record.aliases, from index k
RECURSIVE name_alias_loop(_, _, _, _)
name_alias_loop(gbr_record, aliases, k, matches) ==
    IF k > Len(aliases) THEN Ok(matches)
    ELSE LET alias == aliases[k]
             eq == names_equal(gbr_record.name, alias.value)
         IN  IF ~eq.ok THEN eq
             ELSE name_alias_loop(gbr_record, aliases, k + 1,
                    IF eq.val
                    THEN Append(matches, [gbr_name |-> gbr_record.name,
                                          ofac_alias |-> alias.value])
                    ELSE matches)

get_name_matches(pm) ==
    LET gbr_record == pm[1]
        ofac_record == pm[2]
        eq == names_equal(gbr_record.name, ofac_record.name)
    IN  IF ~eq.ok THEN eq
        ELSE name_alias_loop(gbr_record, ofac_record.aliases, 1,
                IF eq.val
                THEN <<[gbr_name |-> gbr_record.name,
                        ofac_name |-> ofac_record.name]>>
                ELSE <<>>)

\* the inner loop of get_alias_matches over ofac_record.aliases, from index k
RECURSIVE alias_alias_loop(_, _, _, _)
alias_alias_loop(gbr_alias, aliases, k, matches) ==
    IF k > Len(aliases) THEN Ok(matches)
    ELSE LET ofac_alias == aliases[k]
             eq == names_equal(gbr_alias.value, ofac_alias.value)
         IN  IF ~eq.ok THEN eq
             ELSE alias_alias_loop(gbr_alias, aliases, k + 1,
                    IF eq.val
                    THEN Append(matches, [gbr_alias |-> gbr_alias.value,
                                          ofac_alias |-> ofac_alias.value])
                    ELSE matches)

\* the outer loop of get_alias_matches over gbr_record.aliases, from index k
RECURSIVE alias_loop(_, _, _, _)
alias_loop(aliases, ofac_record, k, matches) ==
    IF k > Len(aliases) THEN Ok(matches)
    ELSE LET gbr_alias == aliases[k]
             eq == names_equal(gbr_alias.value, ofac_record.name)
         IN  IF ~eq.ok THEN eq
             ELSE LET inner == alias_alias_loop(gbr_alias,
                                 ofac_record.aliases, 1,
                                 IF eq.val
                                 THEN Append(matches,
                                        [gbr_alias |-> gbr_alias.value,
                                         ofac_name |-> ofac_record.name])
                                 ELSE matches)
                  IN  IF ~inner.ok THEN inner
                      ELSE alias_loop(aliases, ofac_record, k + 1, inner.val)

\* a loop that starts at the second gbr alias
get_alias_matches_skip_first(pm) == alias_loop(pm[1].aliases, pm[2], 2, <<>>)

get_alias_matches(pm) == alias_loop(pm[1].aliases, pm[2], 1, <<>>)

\* the inner loop of get_id_matches over ofac_record.id_numbers, from index k
RECURSIVE id_inner_loop(_, _, _, _)
id_inner_loop(gbr_id, id_numbers, k, matches) ==
    IF k > Len(id_numbers) THEN matches
    ELSE LET ofac_id == id_numbers[k]
         IN  id_inner_loop(gbr_id, id_numbers, k + 1,
                IF gbr_id.value = ofac_id.value
                THEN Append(matches, [gbr_id_number |-> gbr_id.value,
                                      gbr_comment |-> gbr_id.comment,
                                      ofac_id_number |-> ofac_id.value,
                                      ofac_comment |-> ofac_id.comment])
                ELSE matches)

\* the outer loop of get_id_matches over gbr_record.id_numbers, from index k
RECURSIVE id_loop(_, _, _, _)
id_loop(id_numbers, ofac_record, k, matches) ==
    IF k > Len(id_numbers) THEN matches
    ELSE id_loop(id_numbers, ofac_record, k + 1,
            id_inner_loop(id_numbers[k], ofac_record.id_numbers, 1, matches))

get_id_matches(pm) == Ok(id_loop(pm[1].id_numbers, pm[2], 1, <<>>))

\* alias_matches + name_matches + id_matches
get_all_matches_alias_first(pm) ==
    LET gbr_record == pm[1]
        ofac_record == pm[2]
        name_matches == get_name_matches(pm)
        alias_matches == get_alias_matches(pm)
        id_matches == get_id_matches(pm)
    IN  IF ~name_matches.ok THEN name_matches
        ELSE IF ~alias_matches.ok THEN alias_matches
        ELSE IF ~id_matches.ok THEN id_matches
        ELSE Ok([gbr_id |-> gbr_record.id_,
                 ofac_id |-> ofac_record.id_,
                 matches |-> alias_matches.val \o name_matches.val
                                \o id_matches.val])

get_all_matches(pm) ==
    LET gbr_record == pm[1]
        ofac_record == pm[2]
        name_matches == get_name_matches(pm)
        alias_matches == get_alias_matches(pm)
        id_matches == get_id_matches(pm)
    IN  IF ~name_matches.ok THEN name_matches
        ELSE IF ~alias_matches.ok THEN alias_matches
        ELSE IF ~id_matches.ok THEN id_matches
        ELSE Ok([gbr_id |-> gbr_record.id_,
                 ofac_id |-> ofac_record.id_,
                 matches |-> name_matches.val \o alias_matches.val
                                \o id_matches.val])

----------------------------------------------------------------------------
(* filter and drop_duplicates *)

\* a filter that lets every record through
keep_record_always(rec) == TRUE

\* the lambda of .filter(): a list is true when it is not empty
keep_record(rec) == rec.matches # <<>>

\* keep="last": an entry is dropped when it occurs again later
RECURSIVE series_drop_duplicates_keep_last(_, _)
series_drop_duplicates_keep_last(all_matches, seen) ==
    IF all_matches = <<>> THEN <<>>
    ELSE IF \E i \in 2..Len(all_matches) : all_matches[i] = Head(all_matches)
         THEN series_drop_duplicates_keep_last(Tail(all_matches), seen)
         ELSE <<Head(all_matches)>>
                \o series_drop_duplicates_keep_last(Tail(all_matches), seen)

\* pd.Series(all_matches).drop_duplicates().to_list(): first occurrences
RECURSIVE series_drop_duplicates(_, _)
series_drop_duplicates(all_matches, seen) ==
    IF all_matches = <<>> THEN <<>>
    ELSE IF \E i \in 1..Len(seen) : seen[i] = Head(all_matches)
         THEN series_drop_duplicates(Tail(all_matches), seen)
         ELSE <<Head(all_matches)>>
                \o series_drop_duplicates(Tail(all_matches),
                                          Append(seen, Head(all_matches)))

drop_duplicates(rec) ==
    [gbr_id |-> rec.gbr_id,
     ofac_id |-> rec.ofac_id,
     matches |-> series_drop_duplicates(rec.matches, <<>>)]

----------------------------------------------------------------------------
(* One element through map(get_all_matches).filter(..).map(drop_duplicates) *)

Idle == <<>>

\* names that differ in case, hyphen, comma, apostrophe and period only
\* ("A-b" and "a, 'b." both clean to "a b"), and one that cleans to "ab"
NamePool == {<<"A", "-", "b">>, <<"a", ",", " ", "'", "b", ".">>, <<"a", "b">>}

IdValuePool == {<<"X", "1">>, <<"x", "1">>}

CommentPool == {<<"r", "e", "g">>}

\* the Alias and IDNumber values standardize_aliases and
\* standardize_id_numbers build: an absent field is None
AliasSet == {[value |-> v, type_ |-> <<"a", "k", "a">>] :
                v \in NamePool \cup {None}}

IDNumberSet == {[value |-> v, comment |-> c] :
                v \in IdValuePool \cup {None}, c \in CommentPool \cup {None}}

\* a Record as the dataclass of the source holds it
Record(id_, type_, name, aliases, nationality, addresses, id_numbers, place_of_birth, position, reported_dates_of_birth) ==
    [id_ |-> id_, type_ |-> type_, name |-> name, aliases |-> aliases,
     nationality |-> nationality, addresses |-> addresses,
     id_numbers |-> id_numbers, place_of_birth |-> place_of_birth,
     position |-> position,
     reported_dates_of_birth |-> reported_dates_of_birth]

PlainRecord(id_, name, aliases, id_numbers) ==
    Record(id_, <<"P">>, name, aliases, <<>>, <<>>, id_numbers,
           None, None, <<>>)

PipelineIdle ==
    /\ gbr_lines = Idle /\ ofac_lines = Idle
    /\ gbr_split = 0 /\ ofac_split = 0
    /\ shards = Idle /\ first_done = Idle
    /\ status = "idle" /\ output = Idle

StdIdle == raw_line = Idle /\ standard_record = Idle

pipelineVars == <<gbr_lines, ofac_lines, gbr_split, ofac_split, shards,
                  first_done, status, output>>

stdVars == <<raw_line, standard_record>>

InitMatch ==
    /\ \E la \in 0..MaxItems :
       \E ra \in 0..(MaxItems - la) :
       \E li \in 0..(MaxItems - la - ra) :
       \E ri \in 0..(MaxItems - la - ra - li) :
       \E gn \in NamePool, on \in NamePool :
       \E gal \in ListsOfLen(AliasSet, la), oal \in ListsOfLen(AliasSet, ra) :
       \E gil \in ListsOfLen(IDNumberSet, li),
          oil \in ListsOfLen(IDNumberSet, ri) :
            potential_match = <<PlainRecord(1, gn, gal, gil),
                                PlainRecord(9, on, oal, oil)>>
    /\ pc = "start"
    /\ output_record = Idle
    /\ new_record = Idle
    /\ StdIdle
    /\ PipelineIdle

\* potential_matches.map(get_all_matches) on this element
MapGetAllMatches ==
    /\ pc = "start"
    /\ output_record' = get_all_matches(potential_match)
    /\ pc' = IF output_record'.ok THEN "mapped" ELSE "raised"
    /\ UNCHANGED <<potential_match, new_record, stdVars, pipelineVars>>

\* .filter(lambda output_record: output_record["matches"])
Filter ==
    /\ pc = "mapped"
    /\ pc' = IF keep_record(output_record.val) THEN "kept" ELSE "dropped"
    /\ UNCHANGED <<potential_match, output_record, new_record, stdVars,
                   pipelineVars>>

\* .map(drop_duplicates)
MapDropDuplicates ==
    /\ pc = "kept"
    /\ new_record' = drop_duplicates(output_record.val)
    /\ pc' = "done"
    /\ UNCHANGED <<potential_match, output_record, stdVars, pipelineVars>>

NextMatch == MapGetAllMatches \/ Filter \/ MapDropDuplicates

SpecMatch == InitMatch /\ [][NextMatch]_vars

----------------------------------------------------------------------------
(* Properties of the match rules (SpecMatch) *)

IsNameToName(e) == DOMAIN e = {"gbr_name", "ofac_name"}

IsNameToAlias(e) == DOMAIN e = {"gbr_name", "ofac_alias"}

IsAliasToName(e) == DOMAIN e = {"gbr_alias", "ofac_name"}

IsAliasToAlias(e) == DOMAIN e = {"gbr_alias", "ofac_alias"}

IsIdentifierMatch(e) == "gbr_id_number" \in DOMAIN e

Evaluated == pc # "start"

\* the candidate comparisons of the name rules, in the order of section 4.3:
\* a and b are the strings compared, ev the evidence to emit
NameCands(l, r) ==
    <<[a |-> l.name, b |-> r.name,
       ev |-> [gbr_name |-> l.name, ofac_name |-> r.name]]>>
    \o [k \in 1..Len(r.aliases) |->
          [a |-> l.name, b |-> r.aliases[k].value,
           ev |-> [gbr_name |-> l.name, ofac_alias |-> r.aliases[k].value]]]

AliasCands(l, r) ==
    LET m == Len(r.aliases) + 1
    IN  [n \in 1..(Len(l.aliases) * m) |->
          LET la == l.aliases[((n - 1) \div m) + 1]
              k == (n - 1) % m
          IN  IF k = 0
              THEN [a |-> la.value, b |-> r.name,
                    ev |-> [gbr_alias |-> la.value, ofac_name |-> r.name]]
              ELSE [a |-> la.value, b |-> r.aliases[k].value,
                    ev |-> [gbr_alias |-> la.value,
                            ofac_alias |-> r.aliases[k].value]]]

IdCands(l, r) ==
    LET m == Len(r.id_numbers)
    IN  [n \in 1..(Len(l.id_numbers) * m) |->
          LET li == l.id_numbers[((n - 1) \div m) + 1]
              ri == r.id_numbers[((n - 1) % m) + 1]
          IN  [a |-> li.value, b |-> ri.value,
               ev |-> [gbr_id_number |-> li.value,
                       gbr_comment |-> li.comment,
                       ofac_id_number |-> ri.value,
                       ofac_comment |-> ri.comment]]]

SameCleanName(c) == clean_name(c.a).val = clean_name(c.b).val

SameString(c) == c.a = c.b

EvidenceOf(cands) == [n \in 1..Len(cands) |-> cands[n].ev]

\* C3 (as claimed): for every pair of Records that standardize_record can
\* produce, aliases and identifiers without a value included, the match
\* rules complete without raising.
C3_MatchRulesNeverRaise == Evaluated => output_record.ok

\* C6: the matches returned by get_all_matches are the name-rule evidence,
\* then the alias-rule evidence (left aliases outer, AliasToName before the
\* AliasToAlias entries of that alias), then the identifier-rule evidence
\* (left outer, right inner); names and aliases are compared by their
\* clean_name forms, identifiers by exact equality, and every entry carries
\* the original strings.
C6_MatchesAreRuleConcatenation ==
    (Evaluated /\ output_record.ok) =>
        LET l == potential_match[1]
            r == potential_match[2]
        IN  output_record.val.matches =
                EvidenceOf(SelectSeq(NameCands(l, r), SameCleanName))
                \o EvidenceOf(SelectSeq(AliasCands(l, r), SameCleanName))
                \o EvidenceOf(SelectSeq(IdCands(l, r), SameString))

\* a pair with evidence of all three families, whose name match needed the
\* normalisation and whose alias evidence is not last
C6_Witness ==
    /\ pc = "mapped"
    /\ LET m == output_record.val.matches
       IN  /\ Len(m) >= 3
           /\ IsNameToName(m[1]) /\ m[1].gbr_name # m[1].ofac_name
           /\ \E i \in 2..Len(m) : IsNameToAlias(m[i]) \/ IsAliasToName(m[i])
                                    \/ IsAliasToAlias(m[i])
           /\ IsIdentifierMatch(m[Len(m)])

Count(seq, e) == Cardinality({i \in 1..Len(seq) : seq[i] = e})

MirrorNameToName(e) == [gbr_name |-> e.ofac_name, ofac_name |-> e.gbr_name]

MirrorIdentifierMatch(e) ==
    [gbr_id_number |-> e.ofac_id_number, gbr_comment |-> e.ofac_comment,
     ofac_id_number |-> e.gbr_id_number, ofac_comment |-> e.gbr_comment]

MirrorNameToAlias(e) == [gbr_alias |-> e.ofac_alias, ofac_name |-> e.gbr_name]

MirrorAliasToName(e) == [gbr_name |-> e.ofac_name, ofac_alias |-> e.gbr_alias]

Entries(seq) == {seq[i] : i \in 1..Len(seq)}

\* C9: swapping the two records mirrors the evidence: the NameToName and
\* the IdentifierMatch entries of (r, l) are those of (l, r) with the sides
\* exchanged, and the NameToAlias entries of (l, r) correspond one to one to
\* the AliasToName entries of (r, l) on the same two strings, and vice versa.
C9_SwapMirrorsEvidence ==
    Evaluated =>
        LET swapped == get_all_matches(<<potential_match[2],
                                         potential_match[1]>>)
        IN  /\ swapped.ok = output_record.ok
            /\ output_record.ok =>
                LET f == output_record.val.matches
                    b == swapped.val.matches
                IN  /\ {MirrorNameToName(e) : e \in {x \in Entries(f) : IsNameToName(x)}}
                         = {x \in Entries(b) : IsNameToName(x)}
                    /\ {MirrorIdentifierMatch(e) : e \in {x \in Entries(f) : IsIdentifierMatch(x)}}
                         = {x \in Entries(b) : IsIdentifierMatch(x)}
                    /\ \A e \in Entries(f) :
                          IsNameToAlias(e) =>
                            Count(b, MirrorNameToAlias(e)) = Count(f, e)
                    /\ \A e \in Entries(f) :
                          IsAliasToName(e) =>
                            Count(b, MirrorAliasToName(e)) = Count(f, e)
                    /\ \A e \in Entries(b) :
                          IsNameToAlias(e) =>
                            Count(f, MirrorNameToAlias(e)) = Count(b, e)
                    /\ \A e \in Entries(b) :
                          IsAliasToName(e) =>
                            Count(f, MirrorAliasToName(e)) = Count(b, e)

\* a pair with a NameToName entry on two different spellings, a NameToAlias
\* entry and an AliasToName entry
C9_Witness ==
    /\ pc = "mapped"
    /\ LET m == output_record.val.matches
       IN  /\ \E i \in 1..Len(m) : IsNameToAlias(m[i])
           /\ \E i \in 1..Len(m) : IsAliasToName(m[i])
           /\ \E i \in 1..Len(m) : IsNameToName(m[i])
                                    /\ m[i].gbr_name # m[i].ofac_name

\* C10 (as claimed): every IdentifierMatch entry carries an identifier value
\* present on both sides; two entries that both lack a value never match.
C10_IdentifierMatchHasValue ==
    (Evaluated /\ output_record.ok) =>
        \A i \in 1..Len(output_record.val.matches) :
            LET e == output_record.val.matches[i]
            IN  IsIdentifierMatch(e) =>
                    e.gbr_id_number # None /\ e.ofac_id_number # None

----------------------------------------------------------------------------
(* drop_duplicates on its own (SpecDedup) *)

\* evidence dicts of the shapes get_all_matches builds: two variants on the
\* same two strings, and two identifier matches that differ in one comment
EvidencePool ==
    {[gbr_name |-> <<"A", "-", "b">>, ofac_name |-> <<"a", "b">>],
     [gbr_name |-> <<"A", "-", "b">>, ofac_alias |-> <<"a", "b">>],
     [gbr_id_number |-> <<"X", "1">>, gbr_comment |-> None,
      ofac_id_number |-> <<"X", "1">>, ofac_comment |-> <<"r", "e", "g">>],
     [gbr_id_number |-> <<"X", "1">>, gbr_comment |-> None,
      ofac_id_number |-> <<"X", "1">>, ofac_comment |-> None]}

\* an output record that passed the filter: its matches are not empty
InitDedup ==
    /\ \E n \in 1..MaxMatches :
       \E all_matches \in ListsOfLen(EvidencePool, n) :
            output_record = Ok([gbr_id |-> 1, ofac_id |-> 9,
                                matches |-> all_matches])
    /\ pc = "kept"
    /\ potential_match = Idle
    /\ new_record = Idle
    /\ StdIdle
    /\ PipelineIdle

NextDedup == MapDropDuplicates

SpecDedup == InitDedup /\ [][NextDedup]_vars

\* index of the first occurrence of e in seq
FirstIndex(seq, e) == CHOOSE i \in 1..Len(seq) :
                        /\ seq[i] = e
                        /\ \A j \in 1..(i - 1) : seq[j] # e

\* C7: drop_duplicates keeps exactly the first occurrence of each distinct
\* evidence entry, in the order of those first occurrences, leaves gbr_id
\* and ofac_id unchanged, and applying it again changes nothing.
C7_KeepsFirstOccurrences ==
    pc = "done" =>
        LET m == output_record.val.matches
            u == new_record.matches
        IN  /\ new_record.gbr_id = output_record.val.gbr_id
            /\ new_record.ofac_id = output_record.val.ofac_id
            /\ Entries(u) = Entries(m)
            /\ \A i, j \in 1..Len(u) : i # j => u[i] # u[j]
            /\ \A i, j \in 1..Len(u) :
                  i < j => FirstIndex(m, u[i]) < FirstIndex(m, u[j])
            /\ drop_duplicates(new_record) = new_record

\* the sequence [A, B, A, C] was deduplicated to [A, B, C]
C7_Witness ==
    /\ pc = "done"
    /\ LET m == output_record.val.matches
       IN  /\ Len(m) = 4
           /\ m[1] = m[3] /\ m[2] # m[1]
           /\ m[4] # m[1] /\ m[4] # m[2]
           /\ new_record.matches = <<m[1], m[2], m[4]>>

----------------------------------------------------------------------------
(* standardize_record *)

\* A line of a .jsonl file: decodes says whether eval() accepts its text,
\* dict is the mapping it evaluates to.  Null is the token null of the text.
Null == <<"null">>

\* .replace("[null]", "[]").replace("null", "None") as seen on the value of
\* a key: a list of text that reads [null] becomes [], a text null becomes
\* None.  Only these keys hold a null in the lines modelled here.
ListKeys == {"nationality", "reported_dates_of_birth"}

TextKeys == {"type", "name", "place_of_birth", "position"}

literal(k, v) == IF k \in ListKeys /\ v = <<Null>> THEN <<>>
                 ELSE IF k \in TextKeys /\ v = Null THEN None
                 ELSE v

eval(line) == IF line.decodes
              THEN Ok([k \in DOMAIN line.dict |-> literal(k, line.dict[k])])
              ELSE Raise("SyntaxError")

\* int(x): an int, a str of digits, or another str
int(x) == IF x.kind \in {"int", "digits"}
          THEN Ok(x.n)
          ELSE Raise("ValueError: invalid literal for int()")

RECURSIVE standardize_addresses(_)
standardize_addresses(address_list) ==
    IF address_list = <<>> THEN <<>>
    ELSE LET address == Head(address_list)
             value == IF "value" \in DOMAIN address
                      THEN address["value"] ELSE None
             country == IF "country" \in DOMAIN address
                        THEN address["country"] ELSE None
             postal_code == IF "postal_code" \in DOMAIN address
                            THEN address["postal_code"] ELSE None
         IN  <<[value |-> value, country |-> country,
                postal_code |-> postal_code]>>
                \o standardize_addresses(Tail(address_list))

RECURSIVE standardize_aliases(_)
standardize_aliases(aliases_list) ==
    IF aliases_list = <<>> THEN <<>>
    ELSE LET alias == Head(aliases_list)
             value == IF "value" \in DOMAIN alias THEN alias["value"] ELSE None
             type_ == IF "type" \in DOMAIN alias THEN alias["type"] ELSE None
         IN  <<[value |-> value, type_ |-> type_]>>
                \o standardize_aliases(Tail(aliases_list))

RECURSIVE standardize_id_numbers(_)
standardize_id_numbers(id_numbers_list) ==
    IF id_numbers_list = <<>> THEN <<>>
    ELSE LET id_numbers == Head(id_numbers_list)
             value == IF "value" \in DOMAIN id_numbers
                      THEN id_numbers["value"] ELSE None
             comment == IF "comment" \in DOMAIN id_numbers
                        THEN id_numbers["comment"] ELSE None
         IN  <<[value |-> value, comment |-> comment]>>
                \o standardize_id_numbers(Tail(id_numbers_list))

\* the part of standardize_record after the three required keys
standardize_fields(record_dict, id_, type_, name) ==
    Ok(Record(id_, type_, name,
        IF "aliases" \in DOMAIN record_dict
        THEN standardize_aliases(record_dict["aliases"]) ELSE <<>>,
        IF "nationality" \in DOMAIN record_dict
        THEN record_dict["nationality"] ELSE <<>>,
        IF "addresses" \in DOMAIN record_dict
        THEN standardize_addresses(record_dict["addresses"]) ELSE <<>>,
        IF "id_numbers" \in DOMAIN record_dict
        THEN standardize_id_numbers(record_dict["id_numbers"]) ELSE <<>>,
        IF "place_of_birth" \in DOMAIN record_dict
        THEN str(record_dict["place_of_birth"]) ELSE None,
        IF "position" \in DOMAIN record_dict
        THEN str(record_dict["position"]) ELSE None,
        IF "reported_dates_of_birth" \in DOMAIN record_dict
        THEN record_dict["reported_dates_of_birth"] ELSE <<>>))

\* a standardizer that also insists on the aliases key
standardize_record_aliases_required(input_string) ==
    LET decoded == eval(input_string)
        record_dict == decoded.val
    IN  IF ~decoded.ok THEN decoded
        ELSE IF "id" \notin DOMAIN record_dict
        THEN Raise("ValueError: id not found")
        ELSE IF ~int(record_dict["id"]).ok THEN int(record_dict["id"])
        ELSE IF "type" \notin DOMAIN record_dict
        THEN Raise("ValueError: type not found")
        ELSE IF "name" \notin DOMAIN record_dict
        THEN Raise("ValueError: name not found")
        ELSE IF "aliases" \notin DOMAIN record_dict
        THEN Raise("ValueError: aliases not found")
        ELSE standardize_fields(record_dict, int(record_dict["id"]).val,
                str(record_dict["type"]), str(record_dict["name"]))

\* a standardizer that gives a line without a name the empty name
standardize_record_default_name(input_string) ==
    LET decoded == eval(input_string)
        record_dict == decoded.val
    IN  IF ~decoded.ok THEN decoded
        ELSE IF "id" \notin DOMAIN record_dict
        THEN Raise("ValueError: id not found")
        ELSE IF ~int(record_dict["id"]).ok THEN int(record_dict["id"])
        ELSE IF "type" \notin DOMAIN record_dict
        THEN Raise("ValueError: type not found")
        ELSE standardize_fields(record_dict, int(record_dict["id"]).val,
                str(record_dict["type"]),
                IF "name" \in DOMAIN record_dict
                THEN str(record_dict["name"]) ELSE <<>>)

standardize_record(input_string) ==
    LET decoded == eval(input_string)
        record_dict == decoded.val
    IN  IF ~decoded.ok THEN decoded
        ELSE IF "id" \notin DOMAIN record_dict
        THEN Raise("ValueError: id not found")
        ELSE IF ~int(record_dict["id"]).ok THEN int(record_dict["id"])
        ELSE IF "type" \notin DOMAIN record_dict
        THEN Raise("ValueError: type not found")
        ELSE IF "name" \notin DOMAIN record_dict
        THEN Raise("ValueError: name not found")
        ELSE standardize_fields(record_dict, int(record_dict["id"]).val,
                str(record_dict["type"]), str(record_dict["name"]))

----------------------------------------------------------------------------
(* standardize_record on one line (SpecStd) *)

Keys == {"id", "type", "name", "aliases", "nationality", "addresses",
         "id_numbers", "place_of_birth", "position",
         "reported_dates_of_birth"}

Restrict(f, D) == [k \in D |-> f[k]]

\* an int, a str of digits and a str that is no number
RawIds == {[kind |-> "int", n |-> 7], [kind |-> "digits", n |-> 7],
           [kind |-> "word", n |-> 0]}

RawAlias == [value |-> <<"a", "b">>, type |-> <<"a", "k", "a">>]

RawAddress == [value |-> <<"1", " ", "s", "t">>, country |-> <<"G", "B">>,
               postal_code |-> <<"N", "1">>]

RawIDNumber == [value |-> <<"X", "1">>, comment |-> <<"r", "e", "g">>]

\* the dicts of a nested list, each with any subset of its fields
Dicts(full) == {Restrict(full, D) : D \in SUBSET (DOMAIN full)}

RawNationalities == {<<<<"G", "B">>>>, <<Null>>}

RawPlaces == {<<"X">>, Null}

InitStd ==
    /\ \E decodes \in BOOLEAN :
       \E D \in (IF decodes THEN SUBSET Keys ELSE {{}}) :
       \E id \in (IF "id" \in D THEN RawIds ELSE {[kind |-> "int", n |-> 7]}) :
       \E na \in 0..(IF "aliases" \in D THEN MaxElems ELSE 0) :
       \E nd \in 0..(IF "addresses" \in D THEN MaxElems - na ELSE 0) :
       \E ni \in 0..(IF "id_numbers" \in D THEN MaxElems - na - nd ELSE 0) :
       \E aliases \in ListsOfLen(Dicts(RawAlias), na) :
       \E addresses \in ListsOfLen(Dicts(RawAddress), nd) :
       \E id_numbers \in ListsOfLen(Dicts(RawIDNumber), ni) :
       \E nationality \in (IF "nationality" \in D THEN RawNationalities
                           ELSE {<<>>}) :
       \E place_of_birth \in (IF "place_of_birth" \in D THEN RawPlaces
                              ELSE {Null}) :
            raw_line = [decodes |-> decodes,
                        dict |-> Restrict(
                            [id |-> id, type |-> <<"P">>,
                             name |-> <<"A", "-", "b">>,
                             aliases |-> aliases,
                             nationality |-> nationality,
                             addresses |-> addresses,
                             id_numbers |-> id_numbers,
                             place_of_birth |-> place_of_birth,
                             position |-> <<"c", "e", "o">>,
                             reported_dates_of_birth |-> <<<<"1", "9">>>>],
                            D)]
    /\ pc = "line"
    /\ standard_record = Idle
    /\ potential_match = Idle
    /\ output_record = Idle
    /\ new_record = Idle
    /\ PipelineIdle

\* sc.textFile(..).map(standardize_record) on this line
MapStandardizeRecord ==
    /\ pc = "line"
    /\ standard_record' = standardize_record(raw_line)
    /\ pc' = IF standard_record'.ok THEN "standardized" ELSE "raised"
    /\ UNCHANGED <<raw_line, potential_match, output_record, new_record,
                   pipelineVars>>

NextStd == MapStandardizeRecord

SpecStd == InitStd /\ [][NextStd]_vars

\* the field of the dataclass that holds a key of a nested dict
FieldOf(k) == IF k = "type" THEN "type_" ELSE k

NestedFields == [aliases |-> {"value", "type"},
                 addresses |-> {"value", "country", "postal_code"},
                 id_numbers |-> {"value", "comment"}]

\* C5: on a decodable line whose present values have their documented kind,
\* standardize_record raises a missing-field ValueError when id, type or
\* name is absent and for no other absent key: with the three present it
\* returns a Record that holds them, whose absent list fields are empty and
\* whose absent scalars are None, and the same holds field by field inside
\* every alias, address and identifier element.
C5_OnlyRequiredKeysAreFatal ==
    (pc # "line" /\ raw_line.decodes) =>
        LET d == raw_line.dict
            D == DOMAIN d
            coercible == "id" \in D /\ d["id"].kind \in {"int", "digits"}
        IN  /\ "id" \notin D =>
                standard_record = Raise("ValueError: id not found")
            /\ (coercible /\ "type" \notin D) =>
                standard_record = Raise("ValueError: type not found")
            /\ (coercible /\ "type" \in D /\ "name" \notin D) =>
                standard_record = Raise("ValueError: name not found")
            /\ ~({"id", "type", "name"} \subseteq D) => ~standard_record.ok
            /\ (coercible /\ {"type", "name"} \subseteq D) =>
                /\ standard_record.ok
                /\ LET r == standard_record.val
                   IN  /\ r.id_ = d["id"].n
                       /\ r.type_ = d["type"] /\ r.name = d["name"]
                       /\ \A k \in {"aliases", "nationality", "addresses",
                                    "id_numbers", "reported_dates_of_birth"}
                                    \ D : r[k] = <<>>
                       /\ \A k \in {"place_of_birth", "position"} \ D :
                            r[k] = None
                       /\ \A k \in DOMAIN NestedFields \cap D :
                            /\ Len(r[k]) = Len(d[k])
                            /\ \A i \in 1..Len(d[k]) :
                               \A f \in NestedFields[k] :
                                  r[k][i][FieldOf(f)] =
                                    IF f \in DOMAIN d[k][i]
                                    THEN d[k][i][f] ELSE None

\* a line with nothing but id, type and name became a Record
C5_Witness ==
    /\ pc = "standardized"
    /\ DOMAIN raw_line.dict = {"id", "type", "name"}
    /\ standard_record.val.aliases = <<>>
    /\ standard_record.val.id_numbers = <<>>
    /\ standard_record.val.position = None

----------------------------------------------------------------------------
(* main: the cartesian map / filter / map job and the merge (Spec) *)

\* Shapes of lines, without their id: a record with an identifier; one that
\* does not match it and lists twice an alias that differs from its own name
\* in case and punctuation only; one with an alias that has no value; one
\* without a name; one whose id is no number; one that eval() rejects.
LinePool ==
    {[decodes |-> TRUE, idkind |-> "int",
      dict |-> [type |-> <<"P">>, name |-> <<"A", "-", "b">>,
                id_numbers |-> <<[value |-> <<"X", "1">>,
                                  comment |-> <<"r", "e", "g">>]>>]],
     [decodes |-> TRUE, idkind |-> "int",
      dict |-> [type |-> <<"P">>, name |-> <<"a", "b">>,
                aliases |-> <<[value |-> <<"A", ".", "b">>,
                               type |-> <<"a", "k", "a">>],
                              [value |-> <<"A", ".", "b">>,
                               type |-> <<"a", "k", "a">>]>>]],
     [decodes |-> TRUE, idkind |-> "int",
      dict |-> [type |-> <<"P">>, name |-> <<"a", "b">>,
                aliases |-> <<[type |-> <<"a", "k", "a">>]>>]],
     [decodes |-> TRUE, idkind |-> "int",
      dict |-> [type |-> <<"P">>]],
     [decodes |-> TRUE, idkind |-> "word",
      dict |-> [type |-> <<"P">>, name |-> <<"a", "b">>]],
     [decodes |-> FALSE, idkind |-> "int", dict |-> <<>>]}

\* the line of shape sh whose id is its position i in the file
LineAt(sh, i) ==
    [decodes |-> sh.decodes,
     dict |-> IF sh.decodes
              THEN ("id" :> [kind |-> sh.idkind, n |-> i]) @@ sh.dict
              ELSE sh.dict]

FunctionIdle ==
    /\ pc = "main"
    /\ raw_line = Idle /\ standard_record = Idle
    /\ potential_match = Idle /\ output_record = Idle /\ new_record = Idle

functionVars == <<pc, raw_line, standard_record, potential_match,
                  output_record, new_record>>

\* sc.textFile: a file of n lines, size lines to a partition, has this many
\* partitions; an empty file has one empty partition
NumPartitions(n, size) == IF n = 0 THEN 1 ELSE (n + size - 1) \div size

\* the positions of the lines of partition k (from 1)
PartitionLines(n, size, k) ==
    [x \in 1..(IF k * size <= n THEN size ELSE n - (k - 1) * size) |->
        (k - 1) * size + x]

\* the partitions of gbr.cartesian(ofac): one task each
Tasks == (1..NumPartitions(Len(gbr_lines), gbr_split))
            \X (1..NumPartitions(Len(ofac_lines), ofac_split))

\* the largest partition size that still splits a file of n lines
SplitsOf(n) == 1..(IF n = 0 THEN 1 ELSE IF n < MaxPartSize THEN n
                   ELSE MaxPartSize)

Init ==
    /\ \E ng \in 0..MaxGbr, no \in 0..MaxOfac :
       \E gs \in ListsOfLen(LinePool, ng), os \in ListsOfLen(LinePool, no) :
          /\ gbr_lines = [i \in 1..ng |-> LineAt(gs[i], i)]
          /\ ofac_lines = [j \in 1..no |-> LineAt(os[j], j)]
    /\ gbr_split \in SplitsOf(Len(gbr_lines))
    /\ ofac_split \in SplitsOf(Len(ofac_lines))
    /\ shards = [t \in Tasks |-> [done |-> FALSE, out |-> <<>>]]
    /\ first_done = <<>>
    /\ status = "running"
    /\ output = <<>>
    /\ FunctionIdle

\* what map(get_all_matches).filter(..).map(drop_duplicates) emits for one
\* element of the cartesian product: nothing, or one deduplicated record
emit(all_matches) ==
    IF keep_record(all_matches)
    THEN <<drop_duplicates(all_matches)>>
    ELSE <<>>

\* the three steps on one element of the product, given what get_all_matches
\* returned or raised for it
filter_step(m) == IF ~m.ok THEN m ELSE Ok(emit(m.val))

\* one element of the product, given what .map(standardize_record) returned
\* or raised for the ofac line
pair_step(gbr_record, o) ==
    IF ~o.ok THEN o ELSE filter_step(get_all_matches(<<gbr_record, o.val>>))

\* a task's pass over its ofac partition for one gbr record, from index y;
\* r is what the element at y gave
RECURSIVE ofac_loop(_, _, _, _)
ofac_next(gbr_record, js, y, acc, r) ==
    IF ~r.ok THEN r ELSE ofac_loop(gbr_record, js, y + 1, acc \o r.val)

ofac_loop(gbr_record, js, y, acc) ==
    IF y > Len(js) THEN Ok(acc)
    ELSE ofac_next(gbr_record, js, y, acc,
            pair_step(gbr_record, standardize_record(ofac_lines[js[y]])))

\* a task's pass over its gbr partition, from index x; g is what
\* .map(standardize_record) returned or raised for the line at x
RECURSIVE gbr_loop(_, _, _, _)
gbr_next(is, js, x, inner) ==
    IF ~inner.ok THEN inner ELSE gbr_loop(is, js, x + 1, inner.val)

gbr_step(is, js, x, acc, g) ==
    IF ~g.ok THEN g ELSE gbr_next(is, js, x, ofac_loop(g.val, js, 1, acc))

gbr_loop(is, js, x, acc) ==
    IF x > Len(is) THEN Ok(acc)
    ELSE gbr_step(is, js, x, acc, standardize_record(gbr_lines[is[x]]))

\* the chunk that the task of partition (a, b) saves, or what it raises
compute(a, b) ==
    gbr_loop(PartitionLines(Len(gbr_lines), gbr_split, a),
             PartitionLines(Len(ofac_lines), ofac_split, b), 1, <<>>)

\* a worker has run one task of matches.saveAsTextFile("matches_multi") and
\* r is its chunk or its exception, which fails the task and with it the job
finish_task(t, r) ==
    IF r.ok
    THEN /\ shards' = [shards EXCEPT ![t] = [done |-> TRUE, out |-> r.val]]
         /\ first_done' = IF first_done = <<>> THEN <<t>> ELSE first_done
         /\ UNCHANGED status
    ELSE /\ status' = "failed"
         /\ UNCHANGED <<shards, first_done>>

RunTask(a, b) ==
    /\ status = "running"
    /\ ~shards[<<a, b>>].done
    /\ finish_task(<<a, b>>, compute(a, b))
    /\ UNCHANGED <<gbr_lines, ofac_lines, gbr_split, ofac_split, output,
                   functionVars>>

\* the tasks by the index of their partition in the product: gbr partition
\* major, ofac partition minor
CartesianOrder ==
    LET nb == NumPartitions(Len(ofac_lines), ofac_split)
    IN  [n \in 1..Cardinality(Tasks) |->
            <<((n - 1) \div nb) + 1, ((n - 1) % nb) + 1>>]

\* the task that finished first, then the others
CompletionOrder ==
    LET NotFirst(t) == <<t>> # first_done
    IN  first_done \o SelectSeq(CartesianOrder, NotFirst)

\* the chunks in the order coalesce(1) reads them: part-0000n is partition n
MergeOrder == CartesianOrder

RECURSIVE Flatten(_)
Flatten(seqs) == IF seqs = <<>> THEN <<>>
                 ELSE Head(seqs) \o Flatten(Tail(seqs))

\* coalesce(1), saveAsTextFile and the rename to data/output.jsonl
Merge ==
    /\ status = "running"
    /\ \A t \in Tasks : shards[t].done
    /\ output' = Flatten([n \in 1..Len(MergeOrder) |->
                            shards[MergeOrder[n]].out])
    /\ status' = "done"
    /\ UNCHANGED <<gbr_lines, ofac_lines, gbr_split, ofac_split, shards,
                   first_done, functionVars>>

Next ==
    \/ \E t \in Tasks : RunTask(t[1], t[2])
    \/ Merge

Spec == Init /\ [][Next]_vars

----------------------------------------------------------------------------
(* Properties of the job (Spec) *)

Terminated == status \in {"done", "failed"}

\* a line that standardize_record cannot turn into a Record
BadLine(line) ==
    \/ ~line.decodes
    \/ ~({"id", "type", "name"} \subseteq DOMAIN line.dict)
    \/ line.dict["id"].kind \notin {"int", "digits"}

AllLines == {gbr_lines[i] : i \in 1..Len(gbr_lines)}
              \cup {ofac_lines[j] : j \in 1..Len(ofac_lines)}

Pairs == (1..Len(gbr_lines)) \X (1..Len(ofac_lines))

GbrRecord(i) == standardize_record(gbr_lines[i]).val

OfacRecord(j) == standardize_record(ofac_lines[j]).val

\* the names and alias values of a record that are strings
NamesOf(r) ==
    ({r.name} \cup {r.aliases[k].value : k \in 1..Len(r.aliases)}) \ {None}

\* some name, alias or identifier rule of section 4.3 is satisfied
RuleSatisfied(l, r) ==
    \/ \E a \in NamesOf(l), b \in NamesOf(r) :
          clean_name(a).val = clean_name(b).val
    \/ \E m \in 1..Len(l.id_numbers), n \in 1..Len(r.id_numbers) :
          l.id_numbers[m].value = r.id_numbers[n].value

\* C1 (as claimed): for any two collections of standardized records the
\* job ends with an output that holds exactly one PairResult, with the ids
\* of the pair, for every pair that satisfies a name, alias or identifier
\* rule, and none for any other pair; it is empty when a collection is.
C1_OutputIsExactlyTheMatchingPairs ==
    (Terminated /\ \A line \in AllLines : ~BadLine(line)) =>
        /\ status = "done"
        /\ \A p \in Pairs :
              Cardinality({n \in 1..Len(output) :
                              /\ output[n].gbr_id = GbrRecord(p[1]).id_
                              /\ output[n].ofac_id = OfacRecord(p[2]).id_})
                = IF RuleSatisfied(GbrRecord(p[1]), OfacRecord(p[2]))
                  THEN 1 ELSE 0
        /\ \A n \in 1..Len(output) :
              \E p \in Pairs : /\ output[n].gbr_id = GbrRecord(p[1]).id_
                               /\ output[n].ofac_id = OfacRecord(p[2]).id_
        /\ Pairs = {} => output = <<>>

\* match, deduplicate, then discard when empty: the order of section 4.5
SpecifiedOrder(all_matches) ==
    LET deduped == drop_duplicates(all_matches)
    IN  IF deduped.matches # <<>> THEN <<deduped>> ELSE <<>>

\* what the specified order retains of the pairs of partition (a, b), gbr
\* line outer, ofac line inner
SpecifiedChunk(a, b) ==
    LET is == PartitionLines(Len(gbr_lines), gbr_split, a)
        js == PartitionLines(Len(ofac_lines), ofac_split, b)
    IN  Flatten([x \in 1..Len(is) |->
        Flatten([y \in 1..Len(js) |->
            SpecifiedOrder(get_all_matches(<<GbrRecord(is[x]),
                                             OfacRecord(js[y])>>).val)])])

\* C2: no PairResult of the output has empty matches, and what the job
\* retains of the pairs (filter, then deduplicate) is what the specified
\* order (deduplicate, then discard the empty) retains.
C2_NoEmptyMatchesInOutput ==
    /\ \A n \in 1..Len(output) : output[n].matches # <<>>
    /\ \A t \in Tasks :
          shards[t].done =>
            /\ \A n \in 1..Len(shards[t].out) :
                  shards[t].out[n].matches # <<>>
            /\ shards[t].out = SpecifiedChunk(t[1], t[2])

\* the job is done, it discarded a pair without matches, and a PairResult
\* of its output lost duplicates
C2_Witness ==
    /\ status = "done"
    /\ \E p \in Pairs :
          get_all_matches(<<GbrRecord(p[1]), OfacRecord(p[2])>>).val.matches
            = <<>>
    /\ \E p \in Pairs : \E n \in 1..Len(output) :
          /\ output[n].gbr_id = p[1] /\ output[n].ofac_id = p[2]
          /\ Len(output[n].matches)
                < Len(get_all_matches(<<GbrRecord(p[1]),
                                        OfacRecord(p[2])>>).val.matches)

\* the output as the inputs and the partitioning alone determine it: one
\* sequential pass over the partitions of the product, gbr partition outer
OutputOfInputs ==
    Flatten([a \in 1..NumPartitions(Len(gbr_lines), gbr_split) |->
    Flatten([b \in 1..NumPartitions(Len(ofac_lines), ofac_split) |->
        SpecifiedChunk(a, b)])])

\* C4 (as claimed): a line that cannot be standardized fails only its own
\* unit of work: the job still completes, and its output holds the
\* PairResults of the pairs that do not involve the line.
C4_BadLineFailsOnlyItsRecord ==
    (Terminated /\ \E line \in AllLines : BadLine(line)) =>
        /\ status = "done"
        /\ \A n \in 1..Len(output) :
              /\ ~BadLine(gbr_lines[output[n].gbr_id])
              /\ ~BadLine(ofac_lines[output[n].ofac_id])
        /\ \A p \in Pairs :
              (~BadLine(gbr_lines[p[1]]) /\ ~BadLine(ofac_lines[p[2]])) =>
                \A e \in Entries(SpecifiedOrder(get_all_matches(
                            <<GbrRecord(p[1]), OfacRecord(p[2])>>).val)) :
                    e \in Entries(output)

\* the lines a task standardizes: those of its gbr partition and, when that
\* has a line, those of its ofac partition
LinesOfTask(t) ==
    LET is == PartitionLines(Len(gbr_lines), gbr_split, t[1])
        js == PartitionLines(Len(ofac_lines), ofac_split, t[2])
    IN  {gbr_lines[is[x]] : x \in 1..Len(is)}
          \cup (IF Len(is) = 0 THEN {}
                ELSE {ofac_lines[js[y]] : y \in 1..Len(js)})

\* C4 (amended): a line that cannot be standardized aborts the batch once a
\* task standardizes it, which happens to every gbr line and, when gbr has
\* a line, to every ofac line: no task that meets the line saves a chunk,
\* the job never completes, no output is produced, and no PairResult
\* carries the line's id.
C4_BadLineAbortsBatch ==
    /\ \A t \in Tasks :
          shards[t].done =>
            /\ \A line \in LinesOfTask(t) : ~BadLine(line)
            /\ \A n \in 1..Len(shards[t].out) :
                  /\ ~BadLine(gbr_lines[shards[t].out[n].gbr_id])
                  /\ ~BadLine(ofac_lines[shards[t].out[n].ofac_id])
    /\ status = "done" =>
          /\ \A i \in 1..Len(gbr_lines) : ~BadLine(gbr_lines[i])
          /\ Len(gbr_lines) > 0 =>
                \A j \in 1..Len(ofac_lines) : ~BadLine(ofac_lines[j])
    /\ status = "failed" => output = <<>>

\* the job failed on a bad line after another task had saved a chunk with a
\* PairResult, and there is no output
C4_Witness ==
    /\ status = "failed"
    /\ \E line \in AllLines : BadLine(line)
    /\ \E t \in Tasks : shards[t].done /\ shards[t].out # <<>>
    /\ output = <<>>

\* C8: under a fixed partitioning the merged output is the same whatever the
\* order in which workers ran the tasks: it is the sequence the inputs and
\* the partitioning determine.
C8_OutputIndependentOfEvaluationOrder ==
    status = "done" => output = OutputOfInputs

\* the job is done, the task that finished first is not the first in the
\* merge, and the output has two different PairResults
C8_Witness ==
    /\ status = "done"
    /\ first_done # <<MergeOrder[1]>>
    /\ Len(output) >= 2
    /\ output[1] # output[2]

====
